---- MODULE Spec2Model ----
(***************************************************************************)
(* Verification model of pen_and_paper_geometric_mean.                     *)
(*                                                                         *)
(* Numbers.  An f64 is modelled as a decimal floating-point record         *)
(*   [k, m, x]:  k = "num" is the positive finite value x * 10^m / P with  *)
(*   the normalised mantissa x in P .. 10P-1 (so floor(log10 v) = m and    *)
(*   v / 10^m = x / P); k = "zero", "neg", "inf", "nan" are 0, a negative  *)
(*   number, +infinity and NaN.  A u64 uses the same records ("zero",      *)
(*   "num" with an integral value) and k = "max" for u64::MAX.  Where the  *)
(*   code adds and subtracts (evaluate_answer) an f64 is the integer       *)
(*   number of 1/P units it holds; Fx converts exactly.  log10, ln and     *)
(*   exp are taken as the real functions (no rounding error of the last    *)
(*   binary digit is modelled).                                            *)
(***************************************************************************)
EXTENDS Integers, Sequences, FiniteSets, TLC

VARIABLES
    args,      \* pure-function specifications: the arguments of the call
    ret,       \* pure-function specifications: what the calls returned
    rng,       \* number of values drawn so far from the random source
    phase,     \* session: "NoConfig", "Configured", "Ready", "Active", "Done", "Failed", "Panicked"
    config,    \* session: the Result of PracticeModeConfig::new
    method,    \* session: the estimation method E installed in the session
    guesses,   \* session: the guesses start returned
    active,    \* session: the fields of ActiveSession
    timer,     \* session: the counter of the (mock) timer
    result,    \* session: start's error or the PracticeResult
    hist       \* session: what has been called on the session so far

vars == <<args, ret, rng, phase, config, method, guesses, active, timer, result, hist>>
pureVars == <<args, ret, rng>>
sessionVars == <<phase, config, method, guesses, active, timer, result, hist>>

(***************************************************************************)
(* Bounds of the model.                                                    *)
(***************************************************************************)
MantDigits == 2       \* decimal digits of the mantissa after the leading one
MaxLowMag == 3        \* rounding is explored for magnitudes -1 .. MaxLowMag and around 18
MaxSamples == 2       \* calls of sample on one distribution
MaxRng == 1           \* the random source starts after 0 .. MaxRng draws
MaxLen == 3           \* values in one estimator input
MaxUser == 8          \* the largest user_answer submitted
MaxTeam == 2          \* the largest team_size
MaxAnswer == 3        \* the largest min_answer and max_answer
MaxTests == 3         \* the largest num_tests of a harness run
MaxTestSize == 2      \* the largest test_size drawn by the harness (the code draws 1 ..= 10)
MaxPairLen == 2       \* values in each of two inputs that are compared

(***************************************************************************)
(* Program constants.                                                      *)
(***************************************************************************)
MaxMagnitude == 18    \* trivia_guess.rs: if magnitude > 18
MaxLogStdDev == 50    \* trivia_guess.rs: if log_std_dev > 50.0
I32Max == 2147483647  \* f64 -> i32 casts saturate

RECURSIVE Pow10(_)
Pow10(n) == IF n <= 0 THEN 1 ELSE 10 * Pow10(n - 1)

P == Pow10(MantDigits)

Num(m, x) == [k |-> "num", m |-> m, x |-> x]
Neg(m, x) == [k |-> "neg", m |-> m, x |-> x]
Zero == [k |-> "zero", m |-> 0, x |-> 0]
PosInf == [k |-> "inf", m |-> 0, x |-> 0]
NegInf == [k |-> "ninf", m |-> 0, x |-> 0]
NaN == [k |-> "nan", m |-> 0, x |-> 0]
U64Max == [k |-> "max", m |-> 0, x |-> 0]
One == Num(0, P)

Mantissas == P .. (10 * P - 1)

\* u64::MAX = 18446744073709551615 in units of 10^m / P; below magnitude 16 it is
\* beyond every quantity of the model
U64MaxUnits(m) ==
    IF m < 16 THEN I32Max
    ELSE IF MantDigits + 13 >= m THEN 1844674 * Pow10(MantDigits + 13 - m)
    ELSE 1844674 \div Pow10(m - MantDigits - 13)

\* `u as f64`: exact on the grid; u64::MAX becomes 2^64 = 1.8446744e19
U64ToF64(u) == IF u.k = "max" THEN Num(19, U64MaxUnits(19)) ELSE u

\* n units of 10^m / P as a u64
FromUnits(m, n) ==
    IF n = 0 THEN Zero
    ELSE IF n >= U64MaxUnits(m) THEN U64Max
    ELSE IF n >= 10 * P THEN Num(m + 1, n \div 10)
    ELSE Num(m, n)

\* f64 comparison; every comparison with NaN is false
Rank(v) ==
    CASE v.k = "ninf" -> -2
      [] v.k = "neg" -> -1
      [] v.k = "zero" -> 0
      [] v.k = "inf" -> 2
      [] OTHER -> 1

MagLt(a, b) == a.m < b.m \/ (a.m = b.m /\ a.x < b.x)

Lt(a, b) ==
    /\ a.k # "nan" /\ b.k # "nan"
    /\ \/ Rank(a) < Rank(b)
       \/ a.k = "num" /\ b.k = "num" /\ MagLt(a, b)
       \/ a.k = "neg" /\ b.k = "neg" /\ MagLt(b, a)

Le(a, b) == a.k # "nan" /\ b.k # "nan" /\ (Lt(a, b) \/ a = b)

is_finite(v) == v.k \notin {"nan", "inf", "ninf"}

\* a natural number as a number of the grid (exact up to MantDigits + 1 digits)
RECURSIVE Digits(_)
Digits(n) == IF n < 10 THEN 1 ELSE 1 + Digits(n \div 10)

FromNat(n) ==
    IF n = 0 THEN Zero
    ELSE LET m == Digits(n) - 1
         IN  Num(m, IF m <= MantDigits THEN n * Pow10(MantDigits - m)
                    ELSE n \div Pow10(m - MantDigits))

\* the value is a whole number
IsIntegral(v) ==
    \/ v.k \in {"zero", "max"}
    \/ v.k = "num" /\ v.m >= 0 /\ (v.m >= MantDigits \/ v.x % Pow10(MantDigits - v.m) = 0)

\* v.log10().floor() as i32 (the cast of NaN is 0)
Log10Floor(v) == IF v.k = "inf" THEN I32Max ELSE IF v.k = "nan" THEN 0 ELSE v.m

\* a variant of the step size computed without the cut of the integer division
DivMagnitudePower_uncut(magnitude, d) == P \div d

\* 10_u64.pow(magnitude) / d, in units of 10^magnitude / P (integer division of u64)
DivMagnitudePower(magnitude, d) ==
    IF magnitude >= MantDigits
    THEN P \div d
    ELSE (Pow10(magnitude) \div d) * Pow10(MantDigits - magnitude)

\* |ln t - ln a| <= |ln t - ln b| for positive t, a, b (ln is monotone)
Max2(a, b) == IF a >= b THEN a ELSE b
Min2(a, b) == IF a <= b THEN a ELSE b
LogDistLe(t, a, b) == Max2(t, a) * Min2(t, b) <= Max2(t, b) * Min2(t, a)

(***************************************************************************)
(* trivia_guess.rs                                                         *)
(***************************************************************************)
\* u64 saturating_add and saturating_mul, in units of 10^magnitude / P
saturating_add(magnitude, a, b) == Min2(a + b, U64MaxUnits(magnitude))
saturating_mul(magnitude, a, b) == Min2(a * b, U64MaxUnits(magnitude))

\* a variant of the bracketing in which k is rounded up
find_bracketing_candidates_up(magnitude, target, base, step_size) ==
    IF step_size = 0
    THEN <<base, base>>
    ELSE LET offset == target - base
             k == IF offset >= 0 THEN (offset + step_size - 1) \div step_size ELSE 0
             candidate_low ==
                 saturating_add(magnitude, base, saturating_mul(magnitude, k, step_size))
             candidate_high ==
                 saturating_add(magnitude, base,
                     saturating_mul(magnitude, saturating_add(magnitude, k, 1), step_size))
         IN  <<candidate_low, candidate_high>>

\* target, base, step_size and the candidates in units of 10^magnitude / P
find_bracketing_candidates(magnitude, target, base, step_size) ==
    IF step_size = 0
    THEN <<base, base>>
    ELSE LET offset == target - base
             k == IF offset >= 0 THEN offset \div step_size ELSE 0
             candidate_low ==
                 saturating_add(magnitude, base, saturating_mul(magnitude, k, step_size))
             candidate_high ==
                 saturating_add(magnitude, base,
                     saturating_mul(magnitude, saturating_add(magnitude, k, 1), step_size))
         IN  <<candidate_low, candidate_high>>

\* a variant of the choice that compares the distances themselves, not their logarithms
choose_closest_in_linear_space(target, candidate_low, candidate_high) ==
    IF candidate_low = 0 \/ candidate_high = 0
    THEN (IF candidate_low > 0 THEN candidate_low ELSE candidate_high)
    ELSE IF Max2(target, candidate_low) - Min2(target, candidate_low)
            <= Max2(target, candidate_high) - Min2(target, candidate_high)
         THEN candidate_low
         ELSE candidate_high

choose_closest_in_log_space(target, candidate_low, candidate_high) ==
    IF candidate_low = 0 \/ candidate_high = 0
    THEN (IF candidate_low > 0 THEN candidate_low ELSE candidate_high)
    ELSE IF LogDistLe(target, candidate_low, candidate_high)
         THEN candidate_low
         ELSE candidate_high

\* a variant of the step rule with two significant digits for every first digit above 1
StepDivisor_tenths(first_digit) == IF first_digit = 1 THEN 20 ELSE 10

StepDivisor(first_digit) ==
    IF first_digit = 1 THEN 20 ELSE IF first_digit <= 4 THEN 10 ELSE 2

\* the match on first_digit of round_to_trivia_value: (candidate_low, candidate_high)
\* of a raw value of magnitude 0 .. 18
match_first_digit(magnitude, raw_value) ==
    LET magnitude_power == P
        first_digit == raw_value.x \div magnitude_power
        step_size == DivMagnitudePower(magnitude, StepDivisor(first_digit))
        base == IF first_digit = 1 THEN magnitude_power
                ELSE first_digit * magnitude_power
    IN  find_bracketing_candidates(magnitude, raw_value.x, base, step_size)

\* a variant of the rounding that truncates a raw value below 1.0 to 0
round_to_trivia_value_truncating(raw_value) ==
    IF Lt(raw_value, One) THEN Zero
    ELSE IF raw_value = One THEN One
    ELSE LET magnitude == Log10Floor(raw_value) IN
         IF magnitude > MaxMagnitude THEN U64Max
         ELSE LET c == match_first_digit(magnitude, raw_value)
              IN  FromUnits(magnitude, choose_closest_in_log_space(raw_value.x, c[1], c[2]))

\* a variant of the rounding without the return of u64::MAX above magnitude 18
round_to_trivia_value_unguarded(raw_value) ==
    IF Le(raw_value, One) THEN One
    ELSE LET magnitude == Log10Floor(raw_value) IN
         IF magnitude < 0 THEN One
         ELSE IF raw_value.k = "inf" THEN U64Max
         ELSE LET c == match_first_digit(magnitude, raw_value)
              IN  FromUnits(magnitude, choose_closest_in_log_space(raw_value.x, c[1], c[2]))

round_to_trivia_value(raw_value) ==
    IF Le(raw_value, One) THEN One
    ELSE LET magnitude == Log10Floor(raw_value) IN
         IF magnitude < 0 THEN One
         ELSE IF magnitude > MaxMagnitude THEN U64Max
         ELSE LET c == match_first_digit(magnitude, raw_value)
              IN  FromUnits(magnitude, choose_closest_in_log_space(raw_value.x, c[1], c[2]))

\* a variant of new that rejects log_std_dev = 50.0 as too large
TriviaGuessDistribution_new_exclusive(correct_answer, log_std_dev) ==
    IF correct_answer = Zero
    THEN [ok |-> FALSE, err |-> "InvalidCorrectAnswer"]
    ELSE IF ~is_finite(log_std_dev) \/ Lt(log_std_dev, Zero)
    THEN [ok |-> FALSE, err |-> "InvalidLogStdDev"]
    ELSE IF Le(FromNat(MaxLogStdDev), log_std_dev)
    THEN [ok |-> FALSE, err |-> "LogStdDevTooLarge"]
    ELSE [ok |-> TRUE, correct_answer |-> correct_answer, log_std_dev |-> log_std_dev]

\* TriviaGuessDistribution::new.  The cached ln_correct_answer is a function of
\* correct_answer and is not kept.
TriviaGuessDistribution_new(correct_answer, log_std_dev) ==
    IF correct_answer = Zero
    THEN [ok |-> FALSE, err |-> "InvalidCorrectAnswer"]
    ELSE IF ~is_finite(log_std_dev) \/ Lt(log_std_dev, Zero)
    THEN [ok |-> FALSE, err |-> "InvalidLogStdDev"]
    ELSE IF Lt(FromNat(MaxLogStdDev), log_std_dev)
    THEN [ok |-> FALSE, err |-> "LogStdDevTooLarge"]
    ELSE [ok |-> TRUE, correct_answer |-> correct_answer, log_std_dev |-> log_std_dev]

\* The number of values sample draws from the random source (u1 and u2).
sample_draws(self) == IF self.log_std_dev = Zero THEN 0 ELSE 2

\* a variant of sample without the shortcut for log_std_dev = 0
sample_no_shortcut(self, raw_value) == round_to_trivia_value(raw_value)

\* Distribution::sample.  raw_value stands for exp(ln_correct_answer + log_std_dev * z)
\* with z the Box-Muller deviate of the two values drawn: any value of 0 .. +inf.
sample(self, raw_value) ==
    IF self.log_std_dev = Zero
    THEN round_to_trivia_value(U64ToF64(self.correct_answer))
    ELSE round_to_trivia_value(raw_value)

(***************************************************************************)
(* main.rs (crate::exact), log_linear.rs, table_based.rs                   *)
(***************************************************************************)
Ok(v) == [ok |-> TRUE, value |-> v]
Err(e) == [ok |-> FALSE, err |-> e]

\* the validation loop of the exact estimator: the first value <= 0 ends it
RECURSIVE first_non_positive(_, _)
first_non_positive(values, i) ==
    IF i > Len(values) THEN "None"
    ELSE IF Le(values[i], Zero) THEN "NonPositiveValue"
    ELSE first_non_positive(values, i + 1)

\* a variant of the validation loop that tests value < 1.0 before value <= 0.0
RECURSIVE first_invalid_small_first(_, _)
first_invalid_small_first(values, i) ==
    IF i > Len(values) THEN "None"
    ELSE IF Lt(values[i], One) THEN "ValueTooSmall"
    ELSE IF Le(values[i], Zero) THEN "NonPositiveValue"
    ELSE first_invalid_small_first(values, i + 1)

\* the validation loop of the two pen-and-paper estimators
RECURSIVE first_invalid(_, _)
first_invalid(values, i) ==
    IF i > Len(values) THEN "None"
    ELSE IF Le(values[i], Zero) THEN "NonPositiveValue"
    ELSE IF Lt(values[i], One) THEN "ValueTooSmall"
    ELSE first_invalid(values, i + 1)

\* g^n <= t for g >= 1, by repeated division (no intermediate exceeds t)
RECURSIVE PowLe(_, _, _)
PowLe(g, n, t) == IF n = 0 THEN 1 <= t ELSE g <= t /\ PowLe(g, n - 1, t \div g)

\* the largest g in lo .. hi with g^n <= t
RECURSIVE IRoot(_, _, _, _)
IRoot(t, n, lo, hi) ==
    IF lo >= hi THEN lo
    ELSE LET mid == (lo + hi + 1) \div 2
         IN  IF PowLe(mid, n, t) THEN IRoot(t, n, mid, hi) ELSE IRoot(t, n, lo, mid - 1)

RECURSIVE SumSeq(_, _)
SumSeq(f, i) == IF i = 0 THEN 0 ELSE f[i] + SumSeq(f, i - 1)
RECURSIVE ProdSeq(_, _)
ProdSeq(f, i) == IF i = 0 THEN 1 ELSE f[i] * ProdSeq(f, i - 1)

\* exp(mean(ln v)) of positive finite values: the n-th root of their product, computed
\* on mantissas of RootDigits(n) significant digits and cut to the grid
RootDigits(n) == IF n <= 2 THEN MantDigits + 1 ELSE IF n = 3 THEN 2 ELSE 1
exp_log_mean(values) ==
    LET n == Len(values)
        r == Pow10(RootDigits(n) - 1)
        y == [i \in 1 .. n |-> (values[i].x * r) \div P]
        mags == [i \in 1 .. n |-> values[i].m]
        msum == SumSeq(mags, n)
        q == msum \div n
        t == ProdSeq(y, n) * Pow10(msum % n)
        g == IF n = 1 THEN t ELSE IRoot(t, n, r, 100 * r - 1)
    IN  IF g >= 10 * r THEN Num(q + 1, (g * P) \div (10 * r)) ELSE Num(q, (g * P) \div r)

\* the product of two values of the grid
Times(a, b) ==
    LET p == (a.x * b.x) \div P
    IN  IF p >= 10 * P THEN Num(a.m + b.m + 1, p \div 10) ELSE Num(a.m + b.m, p)
RECURSIVE Product(_, _)
Product(values, i) == IF i = 1 THEN values[1] ELSE Times(Product(values, i - 1), values[i])

\* a variant of the exact estimator that takes exp of log_sum, not of log_mean
geometric_mean_of_sum(values) ==
    IF Len(values) = 0 THEN Err("EmptyInput")
    ELSE IF first_non_positive(values, 1) # "None" THEN Err(first_non_positive(values, 1))
    ELSE IF \E i \in 1 .. Len(values) : values[i].k = "nan" THEN Ok(NaN)
    ELSE Ok(Product(values, Len(values)))

geometric_mean(values) ==
    IF Len(values) = 0 THEN Err("EmptyInput")
    ELSE IF first_non_positive(values, 1) # "None" THEN Err(first_non_positive(values, 1))
    ELSE IF \E i \in 1 .. Len(values) : values[i].k = "nan" THEN Ok(NaN)
    ELSE Ok(exp_log_mean(values))

\* a variant of the encoding with the exponent in place of the digit count
convert_to_log_linear_exponent(value) == Log10Floor(value) * (10 * P) + value.x

\* log_linear.rs: a log-linear value d.ffff is held in units of 1 / (10 * P)
convert_to_log_linear(value) ==
    LET digit_count == Log10Floor(value) + 1
        fractional_part == value.x      \* value / 10^digit_count = x / (10 * P)
    IN  digit_count * (10 * P) + fractional_part

\* x units of 10^m / P, x > 0 below the normalised range, as a number of the grid
RECURSIVE Normalised(_, _)
Normalised(m, x) == IF x = 0 THEN Zero ELSE IF x < P THEN Normalised(m - 1, 10 * x) ELSE Num(m, x)

\* a variant of the decoding that takes every fraction as it is
convert_from_log_linear_unclamped(log_value) ==
    LET digit_count == log_value \div (10 * P)
        fractional_part == log_value - digit_count * (10 * P)
    IN  Normalised(digit_count - 1, fractional_part)

\* a variant of the decoding that takes a fraction below 0.1 to the next power of ten
convert_from_log_linear_next_power(log_value) ==
    LET digit_count == log_value \div (10 * P)
        fractional_part == log_value - digit_count * (10 * P)
    IN  IF fractional_part < P THEN Num(digit_count, P)
        ELSE Num(digit_count - 1, fractional_part)

convert_from_log_linear(log_value) ==
    LET digit_count == log_value \div (10 * P)
        fractional_part == log_value - digit_count * (10 * P)
        clamped == IF fractional_part < P THEN P ELSE fractional_part
    IN  Num(digit_count - 1, clamped)

log_linear_approximation(values) ==
    IF Len(values) = 0 THEN Err("EmptyInput")
    ELSE IF first_invalid(values, 1) # "None" THEN Err(first_invalid(values, 1))
    ELSE IF \E i \in 1 .. Len(values) : values[i].k = "nan" THEN Ok(NaN)
    ELSE LET enc == [i \in 1 .. Len(values) |-> convert_to_log_linear(values[i])]
             sum == SumSeq(enc, Len(values))
             average == sum \div Len(values)
         IN  Ok(convert_from_log_linear(average))

\* table_based.rs: the multipliers 1.0, 1.25, 1.6, 2.0, 2.5, 3.0, 4.0, 5.0, 6.0, 8.0
\* as mantissas (index 0 is MULTIPLIERS[1])
MULTIPLIERS ==
    <<P, (125 * P) \div 100, (16 * P) \div 10, 2 * P, (25 * P) \div 10,
      3 * P, 4 * P, 5 * P, 6 * P, 8 * P>>

\* a variant of the scan that takes the table entry nearest to the leading digits
scan_table_nearest(leading_digits, i) ==
    CHOOSE j \in 0 .. i :
        \A h \in 0 .. i :
            LET dj == Max2(leading_digits, MULTIPLIERS[j + 1])
                          - Min2(leading_digits, MULTIPLIERS[j + 1])
                dh == Max2(leading_digits, MULTIPLIERS[h + 1])
                          - Min2(leading_digits, MULTIPLIERS[h + 1])
            IN  dj < dh \/ (dj = dh /\ j <= h)

RECURSIVE scan_table(_, _)
scan_table(leading_digits, i) ==
    IF i < 0 THEN 0
    ELSE IF leading_digits >= MULTIPLIERS[i + 1] THEN i
    ELSE scan_table(leading_digits, i - 1)

find_forward_table_entry(leading_digits) ==
    scan_table(leading_digits, Len(MULTIPLIERS) - 1)

number_to_log_representation(value) ==
    LET zeros == Log10Floor(value)
        leading_digits == value.x
        table_index == find_forward_table_entry(leading_digits)
    IN  zeros * 10 + table_index

log_representation_to_number(scaled_log) ==
    LET zeros == scaled_log \div 10
        fractional_index == scaled_log % 10
        multiplier == MULTIPLIERS[fractional_index + 1]
    IN  Num(zeros, multiplier)

\* a variant of the table-based estimator that rounds the average to the nearest code
table_based_approximation_nearest(values) ==
    IF Len(values) = 0 THEN Err("EmptyInput")
    ELSE IF first_invalid(values, 1) # "None" THEN Err(first_invalid(values, 1))
    ELSE LET enc == [i \in 1 .. Len(values) |-> number_to_log_representation(values[i])]
             sum == SumSeq(enc, Len(values))
             average == (2 * sum + Len(values)) \div (2 * Len(values))
         IN  Ok(log_representation_to_number(average))

table_based_approximation(values) ==
    IF Len(values) = 0 THEN Err("EmptyInput")
    ELSE IF first_invalid(values, 1) # "None" THEN Err(first_invalid(values, 1))
    ELSE LET enc == [i \in 1 .. Len(values) |-> number_to_log_representation(values[i])]
             sum == SumSeq(enc, Len(values))
             average == (sum + Len(values) - 1) \div Len(values)
         IN  Ok(log_representation_to_number(average))

\* a variant in which the log-linear estimator stands where the exact one was asked for
estimate_geometric_mean_not_exact(E, values) ==
    CASE E = "Exact" -> log_linear_approximation(values)
      [] E = "LogLinear" -> log_linear_approximation(values)
      [] E = "TableBased" -> table_based_approximation(values)
      [] OTHER -> Err("EstimatorError")

\* E::estimate_geometric_mean: the estimation methods of the repository, and
\* "Failing", an implementation of the trait that returns its error
estimate_geometric_mean(E, values) ==
    CASE E = "Exact" -> geometric_mean(values)
      [] E = "LogLinear" -> log_linear_approximation(values)
      [] E = "TableBased" -> table_based_approximation(values)
      [] OTHER -> Err("EstimatorError")

(***************************************************************************)
(* practice_mode.rs                                                        *)
(***************************************************************************)
\* an f64 of the grid (>= 1) as its number of 1/P units
Fx(v) == IF v.k = "zero" THEN 0 ELSE v.x * Pow10(v.m)

Abs(a) == IF a < 0 THEN -a ELSE a
\* f.floor() as u64 and f.ceil() as u64 of f units of 1/P (the cast of a negative is 0)
floor_as_u64(f) == Max2(0, f \div P)
ceil_as_u64(f) == Max2(0, -((-f) \div P))

\* a variant of evaluate_answer that tests the Excellent range before floor and ceiling
evaluate_answer_excellent_first(user_answer, exact_geometric_mean, estimation_result) ==
    LET error_margin == Abs(estimation_result - exact_geometric_mean)
        user_answer_f64 == user_answer * P
    IN  IF /\ user_answer_f64 > exact_geometric_mean - error_margin
           /\ user_answer_f64 < exact_geometric_mean + error_margin
        THEN "Excellent"
        ELSE IF \/ user_answer = floor_as_u64(estimation_result)
                \/ user_answer = ceil_as_u64(estimation_result)
        THEN "Correct"
        ELSE "Incorrect"

\* a variant of evaluate_answer whose Excellent range includes its two ends
evaluate_answer_inclusive(user_answer, exact_geometric_mean, estimation_result) ==
    LET error_margin == Abs(estimation_result - exact_geometric_mean)
        user_answer_f64 == user_answer * P
    IN  IF \/ user_answer = floor_as_u64(estimation_result)
           \/ user_answer = ceil_as_u64(estimation_result)
        THEN "Correct"
        ELSE IF /\ user_answer_f64 >= exact_geometric_mean - error_margin
                /\ user_answer_f64 <= exact_geometric_mean + error_margin
        THEN "Excellent"
        ELSE "Incorrect"

\* user_answer is a u64; exact_geometric_mean and estimation_result are in units of 1/P
evaluate_answer(user_answer, exact_geometric_mean, estimation_result) ==
    LET estimation_floor == floor_as_u64(estimation_result)
        estimation_ceil == ceil_as_u64(estimation_result)
        error_margin == Abs(estimation_result - exact_geometric_mean)
        excellent_range_min == exact_geometric_mean - error_margin
        excellent_range_max == exact_geometric_mean + error_margin
        user_answer_f64 == user_answer * P
    IN  IF user_answer = estimation_floor \/ user_answer = estimation_ceil
        THEN "Correct"
        ELSE IF user_answer_f64 > excellent_range_min /\ user_answer_f64 < excellent_range_max
        THEN "Excellent"
        ELSE "Incorrect"

\* a variant of PracticeModeConfig::new that tests the range before the team size
PracticeModeConfig_new_range_first(team_size, log_std_dev, min_answer, max_answer) ==
    IF min_answer >= max_answer THEN Err("InvalidAnswerRange")
    ELSE IF team_size = 0 THEN Err("ZeroTeamSize")
    ELSE [ok |-> TRUE, team_size |-> team_size, log_std_dev |-> log_std_dev,
          min_answer |-> min_answer, max_answer |-> max_answer]

\* PracticeModeConfig::new
PracticeModeConfig_new(team_size, log_std_dev, min_answer, max_answer) ==
    IF team_size = 0 THEN Err("ZeroTeamSize")
    ELSE IF min_answer >= max_answer THEN Err("InvalidAnswerRange")
    ELSE [ok |-> TRUE, team_size |-> team_size, log_std_dev |-> log_std_dev,
          min_answer |-> min_answer, max_answer |-> max_answer]

\* a variant of the error mapping that hands the error through
map_err_through(e) == e

\* .map_err(|_| ConfigurationError::InvalidAnswerRange)
map_err(e) == "InvalidAnswerRange"

\* a variant of the type state in which start borrows the session
can_start_again == phase \in {"Ready", "Active", "Failed"}

\* The type state: start is a method of PracticeSession<Ready, ..> and takes self by
\* value; submit_answer is a method of ActiveSession and takes self by value.
can_start == phase = "Ready"
can_submit == phase = "Active"

\* a variant of start that reads the timer before anything can fail
reads_timer_first(r) == TRUE

\* self.timer.now() stands after the three `?` of start: it is reached exactly when
\* start returns Ok
reads_timer(r) == r.ok

\* PracticeSession::start after the draw of correct_answer; raws[i] is the raw value of
\* the i-th sample.  cause is the error start replaced (not part of what it returns).
start(cfg, E, correct_answer, raws) ==
    LET distribution == TriviaGuessDistribution_new(FromNat(correct_answer), cfg.log_std_dev)
    IN  IF ~distribution.ok
        THEN [ok |-> FALSE, err |-> map_err(distribution.err), cause |-> distribution.err,
              draws |-> 1]
        ELSE
        LET gs == [i \in 1 .. cfg.team_size |-> sample(distribution, raws[i])]
            draws == 1 + cfg.team_size * sample_draws(distribution)
            guesses_f64 == [i \in 1 .. cfg.team_size |-> U64ToF64(gs[i])]
            exact_geometric_mean == geometric_mean(guesses_f64)
            estimation_result == estimate_geometric_mean(E, guesses_f64)
        IN  IF ~exact_geometric_mean.ok
            THEN [ok |-> FALSE, err |-> map_err(exact_geometric_mean.err),
                  cause |-> exact_geometric_mean.err, draws |-> draws]
            ELSE IF ~estimation_result.ok
            THEN [ok |-> FALSE, err |-> map_err(estimation_result.err),
                  cause |-> estimation_result.err, draws |-> draws]
            ELSE [ok |-> TRUE, guesses |-> gs,
                  exact_geometric_mean |-> exact_geometric_mean.value,
                  estimation_result |-> estimation_result.value, draws |-> draws]

\* ActiveSession::submit_answer; duration is timer.elapsed(start_instant)
submit_answer(self, user_answer, duration) ==
    [kind |-> "PracticeResult",
     user_answer |-> user_answer,
     exact_geometric_mean |-> self.exact_geometric_mean,
     estimation_result |-> floor_as_u64(Fx(self.estimation_result)),
     duration |-> duration,
     evaluation |-> evaluate_answer(user_answer, Fx(self.exact_geometric_mean),
                                    Fx(self.estimation_result))]

(***************************************************************************)
(* evaluation.rs                                                           *)
(***************************************************************************)
\* a value of -1 <= magnitude as its number of units of 1 / (10 * P)
Units(v) == v.x * Pow10(v.m + 1)

\* the statistics are held in units of 1 / RelScale; a quotient of the harness is the
\* fraction n / d, and NaN is a value of its own
RelScale == 10 * P
Ratio(n, d) == [k |-> "num", n |-> n, d |-> d]
StatNaN == [k |-> "nan", n |-> 0, d |-> 1]

\* f64 arithmetic keeps MantDigits + 1 significant digits and rounds every result to
\* the nearest such number, ties to the even one
RECURSIVE Quantum(_, _)
Quantum(n, k) == IF n < 10 * P * k THEN k ELSE Quantum(n, 10 * k)

RoundDiv(a, b) ==
    LET q == a \div b
        r == a % b
    IN  IF 2 * r > b \/ (2 * r = b /\ q % 2 = 1) THEN q + 1 ELSE q

Rnd(n) ==
    LET k == Quantum(Abs(n), 1)
        q == RoundDiv(Abs(n), k) * k
    IN  IF n < 0 THEN -q ELSE q

\* total / valid_tests as f64, rounded as one f64 division
RECURSIVE Shift(_, _, _)
Shift(t, v, j) == IF t * j >= P * v THEN j ELSE Shift(t, v, 10 * j)

DivRnd(total, valid_tests) ==
    LET t == Abs(total)
        s == IF total < 0 THEN -1 ELSE 1
    IN  IF t = 0 THEN Ratio(0, 1)
        ELSE IF t >= 10 * P * valid_tests
        THEN LET k == Quantum(t \div valid_tests, 1)
             IN  Ratio(s * RoundDiv(t, valid_tests * k) * k, 1)
        ELSE LET j == Shift(t, valid_tests, 1)
             IN  Ratio(s * RoundDiv(t * j, valid_tests), j)

\* (estimate_result - exact_result) / exact_result
signed_relative(estimate_result, exact_result) ==
    LET d == Units(estimate_result) - Units(exact_result)
        q == Rnd(RoundDiv(Abs(d) * RelScale, Units(exact_result)))
    IN  IF d < 0 THEN -q ELSE q

NewTotals ==
    [total_relative_error |-> 0, max_error |-> 0, max_overestimate |-> 0,
     total_signed_error |-> 0, valid_tests |-> 0]

\* the trial is skipped: geometric_mean or the estimator returned an error
trial_skipped(T, test_values) ==
    \/ ~geometric_mean(test_values).ok
    \/ ~estimate_geometric_mean(T, test_values).ok

\* a variant of the loop body that counts a trial the estimator failed on
harness_trial_counting(acc, T, test_values) ==
    IF ~geometric_mean(test_values).ok THEN acc
    ELSE [acc EXCEPT !.valid_tests = @ + 1]

\* one iteration of the loop of evaluate_estimate on the values it drew
harness_trial(acc, T, test_values) ==
    LET exact_result == geometric_mean(test_values) IN
    IF ~exact_result.ok THEN acc
    ELSE
    LET estimate_result == estimate_geometric_mean(T, test_values) IN
    IF ~estimate_result.ok THEN acc
    ELSE
    LET signed_relative_error == signed_relative(estimate_result.value, exact_result.value)
        relative_error == Abs(signed_relative_error)
    IN  [total_relative_error |-> Rnd(acc.total_relative_error + relative_error),
         total_signed_error |-> Rnd(acc.total_signed_error + signed_relative_error),
         max_error |-> IF relative_error > acc.max_error
                       THEN relative_error ELSE acc.max_error,
         max_overestimate |->
             IF signed_relative_error > 0 /\ signed_relative_error > acc.max_overestimate
             THEN signed_relative_error ELSE acc.max_overestimate,
         valid_tests |-> acc.valid_tests + 1]

\* a variant of the end of evaluate_estimate that divides without testing valid_tests
harness_results_unguarded(acc) ==
    [mean_absolute_relative_error |-> DivRnd(acc.total_relative_error, Max2(1, acc.valid_tests)),
     worst_case_error |-> Ratio(acc.max_error, 1),
     worst_case_overestimate |-> Ratio(acc.max_overestimate, 1),
     overall_bias |-> DivRnd(acc.total_signed_error, Max2(1, acc.valid_tests)),
     total_tests |-> acc.valid_tests]

\* the Results evaluate_estimate builds after its loop
harness_results(acc) ==
    IF acc.valid_tests > 0
    THEN [mean_absolute_relative_error |-> DivRnd(acc.total_relative_error, acc.valid_tests),
          worst_case_error |-> Ratio(acc.max_error, 1),
          worst_case_overestimate |-> Ratio(acc.max_overestimate, 1),
          overall_bias |-> DivRnd(acc.total_signed_error, acc.valid_tests),
          total_tests |-> acc.valid_tests]
    ELSE [mean_absolute_relative_error |-> StatNaN, worst_case_error |-> StatNaN,
          worst_case_overestimate |-> StatNaN, overall_bias |-> StatNaN,
          total_tests |-> acc.valid_tests]

(***************************************************************************)
(* Session variables at rest (used by the pure-function specifications).   *)
(***************************************************************************)
NoActive == [exact_geometric_mean |-> Zero, estimation_result |-> Zero, start_instant |-> 0]
NoHist == [starts |-> 0, started |-> FALSE, submits |-> 0, results |-> 0,
           timer_reads |-> 0, cause |-> "None"]

SessionIdle ==
    /\ phase = "NoConfig"
    /\ config = Err("None")
    /\ method = "None"
    /\ guesses = <<>>
    /\ active = NoActive
    /\ timer = 0
    /\ result = [kind |-> "None"]
    /\ hist = NoHist

(***************************************************************************)
(* SpecRound: round_to_trivia_value applied to a raw value, then to its    *)
(* own result.                                                             *)
(***************************************************************************)
RoundMagnitudes == (-1 .. MaxLowMag) \cup ((MaxMagnitude - 1) .. (MaxMagnitude + 2))
RawValues == {Num(m, x) : m \in RoundMagnitudes, x \in Mantissas} \cup {Zero, PosInf}

InitRound ==
    /\ args \in {[raw |-> r] : r \in RawValues}
    /\ ret = <<>>
    /\ rng = 0
    /\ SessionIdle

RoundRaw ==
    /\ ret = <<>>
    /\ ret' = <<round_to_trivia_value(args.raw)>>
    /\ UNCHANGED <<args, rng>>
    /\ UNCHANGED sessionVars

RoundAgain ==
    /\ Len(ret) = 1
    /\ ret' = Append(ret, round_to_trivia_value(U64ToF64(ret[1])))
    /\ UNCHANGED <<args, rng>>
    /\ UNCHANGED sessionVars

NextRound == RoundRaw \/ RoundAgain
SpecRound == InitRound /\ [][NextRound]_vars

\* C4: re-rounding the result of round_to_trivia_value returns the same value
C4_Idempotent == Len(ret) = 2 => ret[2] = ret[1]

\* the quantities round_to_trivia_value computes for raw, in units of 10^magnitude / P
RoundingOf(raw) ==
    LET magnitude == Log10Floor(raw)
        first_digit == raw.x \div P
        step_size == DivMagnitudePower(magnitude, StepDivisor(first_digit))
        base == first_digit * P
        k == IF step_size = 0 THEN 0 ELSE (raw.x - base) \div step_size
    IN  [magnitude |-> magnitude, first_digit |-> first_digit, step_size |-> step_size,
         base |-> base, k |-> k,
         candidate_low |-> base + k * step_size,
         candidate_high |-> base + (k + 1) * step_size]

\* raw is above 1.0 and of a magnitude the rounding works on
InRoundingRange(raw) == raw.k = "num" /\ Lt(One, raw) /\ raw.m \in 0 .. MaxMagnitude

\* C23: raw <= 1.0 or of negative magnitude gives 1, a magnitude above 18 gives
\* u64::MAX, and for every other raw the products and sums of the rounding stay below
\* 2^64: the result is the candidate itself, between first_digit * 10^m and 10^(m+1)
C23_Saturates ==
    Len(ret) >= 1 =>
        LET raw == args.raw
            r == ret[1]
        IN  /\ (Le(raw, One) \/ (raw.k = "num" /\ raw.m < 0)) => r = One
            /\ (raw.k = "inf" \/ (raw.k = "num" /\ raw.m > MaxMagnitude)) => r = U64Max
            /\ InRoundingRange(raw) =>
                  LET q == RoundingOf(raw) IN
                  /\ q.k * q.step_size < U64MaxUnits(raw.m)
                  /\ (q.k + 1) * q.step_size < U64MaxUnits(raw.m)
                  /\ q.candidate_high < U64MaxUnits(raw.m)
                  /\ r.k = "num" /\ IsIntegral(r)
                  /\ r \in {FromUnits(raw.m, q.candidate_low),
                            FromUnits(raw.m, q.candidate_high)}
                  /\ Le(Num(raw.m, q.base), r) /\ Le(r, Num(raw.m + 1, P))

\* the largest raw values below 10^19 are rounded to 10^19, which a u64 holds
C23_Witness ==
    /\ Len(ret) >= 1
    /\ args.raw = Num(MaxMagnitude, 10 * P - 1)
    /\ ret[1] = Num(MaxMagnitude + 1, P)

(***************************************************************************)
(* SpecDist: TriviaGuessDistribution::new, then repeated calls of sample.  *)
(***************************************************************************)
\* the grid of the leading-digit-1 rule and one value off it in every cell
DistMantissas == {x \in Mantissas : x % (P \div 20) \in {0, 2}}
\* the u64 of magnitudes 0, 1, MantDigits and 18, those of 10^19 .. u64::MAX, and 0
CorrectAnswers ==
    {Zero, U64Max} \cup
    {v \in {Num(m, x) : m \in {0, 1, MantDigits, MaxMagnitude}, x \in DistMantissas} :
        IsIntegral(v)} \cup
    {Num(MaxMagnitude + 1, x) : x \in {y \in DistMantissas : y < U64MaxUnits(MaxMagnitude + 1)}}
LogStdDevs ==
    {NaN, PosInf, NegInf, Neg(0, P), Zero, One,
     Num(1, 5 * P), Num(1, 5 * P + 1), Num(1, 5 * P + P \div 10)}
\* what exp(ln_correct_answer + log_std_dev * z) can be: 0, +inf and positive values
DistRaws == {Zero, PosInf, Num(2, P + 3)}

NoDist == [ok |-> FALSE, err |-> "NotBuilt"]

InitDist ==
    /\ args \in {[correct_answer |-> c, log_std_dev |-> s] :
                    c \in CorrectAnswers, s \in LogStdDevs}
    /\ ret = [built |-> FALSE, dist |-> NoDist, samples |-> <<>>, rng0 |-> 0]
    /\ rng \in 0 .. MaxRng
    /\ SessionIdle

NewDistribution ==
    /\ ~ret.built
    /\ ret' = [ret EXCEPT !.built = TRUE,
                          !.dist = TriviaGuessDistribution_new(args.correct_answer,
                                                               args.log_std_dev),
                          !.rng0 = rng]
    /\ UNCHANGED <<args, rng>>
    /\ UNCHANGED sessionVars

SampleDist ==
    /\ ret.built /\ ret.dist.ok
    /\ Len(ret.samples) < MaxSamples
    /\ \E raw \in DistRaws :
          /\ ret' = [ret EXCEPT !.samples = Append(@, sample(ret.dist, raw))]
          /\ rng' = rng + sample_draws(ret.dist)
    /\ UNCHANGED args
    /\ UNCHANGED sessionVars

NextDist == NewDistribution \/ SampleDist
SpecDist == InitDist /\ [][NextDist]_vars

\* C5: with log_std_dev = 0 every call of sample returns
\* round_to_trivia_value(correct_answer) and nothing is drawn from the random source
C5_Deterministic ==
    (ret.built /\ ret.dist.ok /\ ret.dist.log_std_dev = Zero) =>
        /\ \A i \in 1 .. Len(ret.samples) :
              ret.samples[i] = round_to_trivia_value(U64ToF64(args.correct_answer))
        /\ rng = ret.rng0

C5_Witness ==
    /\ ret.built /\ ret.dist.ok /\ ret.dist.log_std_dev = Zero
    /\ Len(ret.samples) = MaxSamples
    /\ args.correct_answer = Num(MantDigits, P + 2)
    /\ ret.samples[1] = FromNat(P)

\* C9: new checks correct_answer = 0, then a NaN, infinite or negative log_std_dev,
\* then log_std_dev > 50.0, and succeeds otherwise (0.0 and 50.0 included)
C9_Expected(c, s) ==
    IF c.k = "zero" THEN "InvalidCorrectAnswer"
    ELSE IF s.k \in {"nan", "inf", "ninf", "neg"} THEN "InvalidLogStdDev"
    ELSE IF s.k = "num" /\ s.m >= 1 /\ (s.m > 1 \/ s.x > 5 * P) THEN "LogStdDevTooLarge"
    ELSE "Ok"

C9_CheckOrder ==
    ret.built =>
        LET e == C9_Expected(args.correct_answer, args.log_std_dev) IN
        IF e = "Ok"
        THEN /\ ret.dist.ok
             /\ ret.dist.correct_answer = args.correct_answer
             /\ ret.dist.log_std_dev = args.log_std_dev
        ELSE ~ret.dist.ok /\ ret.dist.err = e

C9_Witness ==
    /\ ret.built /\ ret.dist.ok
    /\ args.log_std_dev = Num(1, 5 * P)
    /\ args.correct_answer = U64Max

\* the step of the band of leading digit d and magnitude m, in units of 10^m / P:
\* 10^m / 20 for 1, 10^m / 10 for 2 .. 4, 10^m / 2 for 5 .. 9, in whole numbers
C19_Step(m, d) ==
    LET dv == IF d = 1 THEN 20 ELSE IF d <= 4 THEN 10 ELSE 2
    IN  IF m >= MantDigits THEN P \div dv
        ELSE (Pow10(m) \div dv) * Pow10(MantDigits - m)

\* v is a valid trivia number: on the grid of its own band
C19_OnGrid(v) ==
    /\ v.k = "num" /\ v.m >= 0
    /\ LET d == v.x \div P
           step == C19_Step(v.m, d)
       IN  IF step = 0 THEN v.x = d * P ELSE (v.x - d * P) % step = 0

\* C19 as stated: with log_std_dev = 0 and correct_answer a valid trivia number, every
\* sample is exactly correct_answer
C19_GridFixedPoint ==
    (ret.built /\ ret.dist.ok /\ ret.dist.log_std_dev = Zero
       /\ C19_OnGrid(args.correct_answer)) =>
        \A i \in 1 .. Len(ret.samples) : ret.samples[i] = args.correct_answer

(***************************************************************************)
(* SpecBracket: the two steps of the rounding on their own: the candidates *)
(* of a raw value, and the choice between two candidates.                  *)
(***************************************************************************)
\* target and candidates of a direct call of choose_closest_in_log_space: 0 and the
\* whole numbers up to 9, so that 2 lies at the same distance from 1 and 4
ChooseValues == 0 .. 9
BracketCalls ==
    {[op |-> "candidates", raw |-> r] : r \in {v \in RawValues : InRoundingRange(v)}}
    \cup {[op |-> "choose", target |-> t, candidate_low |-> lo, candidate_high |-> hi] :
             t \in ChooseValues \ {0}, lo \in ChooseValues, hi \in ChooseValues}

InitBracket ==
    /\ args \in BracketCalls
    /\ ret = [called |-> FALSE]
    /\ rng = 0
    /\ SessionIdle

\* round_to_trivia_value on a raw value of its range: the pair, then the choice
RoundCandidates ==
    /\ ~ret.called /\ args.op = "candidates"
    /\ LET c == match_first_digit(Log10Floor(args.raw), args.raw)
       IN  ret' = [called |-> TRUE, candidate_low |-> c[1], candidate_high |-> c[2],
                   chosen |-> choose_closest_in_log_space(args.raw.x, c[1], c[2]),
                   value |-> round_to_trivia_value(args.raw)]
    /\ UNCHANGED <<args, rng>>
    /\ UNCHANGED sessionVars

ChooseClosest ==
    /\ ~ret.called /\ args.op = "choose"
    /\ ret' = [called |-> TRUE, candidate_low |-> args.candidate_low,
               candidate_high |-> args.candidate_high,
               chosen |-> choose_closest_in_log_space(args.target, args.candidate_low,
                                                      args.candidate_high),
               value |-> Zero]
    /\ UNCHANGED <<args, rng>>
    /\ UNCHANGED sessionVars

NextBracket == RoundCandidates \/ ChooseClosest
SpecBracket == InitBracket /\ [][NextBracket]_vars

C25_LowIsCloser(t, lo, hi) ==
    IF lo <= t /\ t <= hi THEN t * t <= lo * hi
    ELSE IF hi <= t /\ t <= lo THEN lo * hi <= t * t
    ELSE IF t <= lo THEN lo <= hi
    ELSE hi <= lo

\* C25: the candidate returned is candidate_low when |ln raw - ln low| <= |ln raw - ln
\* high| (raw^2 <= low * high for a pair around raw; a tie goes to candidate_low) and
\* candidate_high otherwise; when one candidate is 0 the other one is returned; the
\* rounding returns the candidate chosen
C25_ClosestInLogSpace ==
    ret.called =>
        LET t == IF args.op = "candidates" THEN args.raw.x ELSE args.target
            lo == ret.candidate_low
            hi == ret.candidate_high
        IN  /\ ret.chosen \in {lo, hi}
            /\ (lo = 0 /\ hi # 0) => ret.chosen = hi
            /\ (hi = 0 /\ lo # 0) => ret.chosen = lo
            /\ (lo # 0 /\ hi # 0) =>
                  ret.chosen = IF C25_LowIsCloser(t, lo, hi) THEN lo ELSE hi
            /\ args.op = "candidates" =>
                  /\ ret.value = FromUnits(args.raw.m, ret.chosen)
                  /\ ret.chosen = IF t * t <= lo * hi THEN lo ELSE hi

\* 525 stands between the candidates 500 and 550 and below their middle, but above
\* sqrt(500 * 550) = 524.4
C25_Witness ==
    /\ ret.called /\ args.op = "candidates"
    /\ args.raw = Num(2, 5 * P + P \div 4)
    /\ ret.candidate_low = 5 * P /\ ret.candidate_high = 5 * P + P \div 2
    /\ ret.chosen = ret.candidate_high
    /\ ret.value = Num(2, 5 * P + P \div 2)

\* C26: every value the rounding returns below u64::MAX is a valid trivia number of its
\* own first digit d and magnitude m: d * 10^m + k * step with the step 10^m / 20 for
\* d = 1, 10^m / 10 for d = 2 .. 4 and 10^m / 2 for d = 5 .. 9 (integer division); a
\* three-digit value is a multiple of 5 in 100 .. 195, of 10 in 200 .. 490 or of 50 in
\* 500 .. 950
C26_ValidTriviaNumber ==
    (Len(ret) >= 1 /\ ret[1] # U64Max) =>
        LET r == ret[1]
            unit == P \div 100
            n == r.x \div unit
        IN  /\ C19_OnGrid(r)
            /\ r.m = 2 =>
                  /\ r.x % unit = 0
                  /\ \/ n \in 100 .. 195 /\ n % 5 = 0
                     \/ n \in 200 .. 490 /\ n % 10 = 0
                     \/ n \in 500 .. 950 /\ n % 50 = 0

\* 496 is rounded across the rules: its candidates are 490 and 500
C26_Witness ==
    /\ Len(ret) >= 1
    /\ args.raw = Num(2, (496 * P) \div 100)
    /\ ret[1] = Num(2, 5 * P)

(***************************************************************************)
(* SpecEst: one call of an estimator on a sequence of values.              *)
(***************************************************************************)
Methods == {"Exact", "LogLinear", "TableBased"}
EstValues ==
    {NaN, Neg(0, 2 * P), Zero, Num(-1, 5 * P), One, Num(0, 4 * P),
     Num(1, 8 * P), Num(2, 3 * P), Num(3, 8 * P)}
SeqsUpTo(S, n) == UNION {[1 .. k -> S] : k \in 0 .. n}

\* the inputs of test_log_linear_approximation_readme_example,
\* test_readme_table_method_case (with 700 for 740: the same code) and
\* test_fractional_average_forcing_ceiling
ReadmeLogLinear == <<Num(2, 3 * P), Num(4, P), Num(2, 9 * P), Num(1, 7 * P)>>
ReadmeTable == <<Num(3, (36 * P) \div 10), Num(2, (92 * P) \div 10), Num(2, 7 * P)>>
ForcingCeiling == [i \in 1 .. 10 |-> IF i < 10 THEN Num(3, P) ELSE Num(3, 8 * P)]
ExampleCalls ==
    {[method |-> "LogLinear", values |-> ReadmeLogLinear],
     [method |-> "TableBased", values |-> ReadmeTable],
     [method |-> "TableBased", values |-> ForcingCeiling]}

InitEst ==
    /\ args \in ExampleCalls \cup {[method |-> e, values |-> vs] :
                    e \in Methods, vs \in SeqsUpTo(EstValues, MaxLen)}
    /\ ret = [called |-> FALSE, res |-> Err("NotCalled")]
    /\ rng = 0
    /\ SessionIdle

Estimate ==
    /\ ~ret.called
    /\ ret' = [called |-> TRUE, res |-> estimate_geometric_mean(args.method, args.values)]
    /\ UNCHANGED <<args, rng>>
    /\ UNCHANGED sessionVars

NextEst == Estimate
SpecEst == InitEst /\ [][NextEst]_vars

HasNonPositive(values) == \E i \in 1 .. Len(values) : values[i].k \in {"zero", "neg"}
\* a value of (0, 1) stands before the first value <= 0
TooSmallFirst(values) ==
    \E i \in 1 .. Len(values) :
        /\ values[i].k = "num" /\ values[i].m < 0
        /\ \A j \in 1 .. (i - 1) : values[j].k \notin {"zero", "neg"}

\* C10 as stated: a pen-and-paper estimator answers NonPositiveValue for every input
\* that holds a value <= 0, wherever it stands
C10_AnyPosition ==
    (ret.called /\ args.method \in {"LogLinear", "TableBased"} /\ HasNonPositive(args.values))
        => ret.res = Err("NonPositiveValue")

\* C10 amended: an input that holds a value <= 0 is answered NonPositiveValue unless a
\* value of (0, 1) stands before the first value <= 0, and then ValueTooSmall
C10_FirstOffender ==
    (ret.called /\ args.method \in {"LogLinear", "TableBased"} /\ HasNonPositive(args.values))
        => ret.res = IF TooSmallFirst(args.values)
                     THEN Err("ValueTooSmall")
                     ELSE Err("NonPositiveValue")

C10_Witness ==
    /\ ret.called /\ args.method = "TableBased"
    /\ args.values = <<Num(0, 4 * P), Num(2, 3 * P), Zero>>
    /\ ret.res = Err("NonPositiveValue")

\* every value of the input is accepted by the method: > 0 for the exact estimator,
\* >= 1.0 for the two pen-and-paper estimators
AllAccepted(method_, values) ==
    \A i \in 1 .. Len(values) :
        IF method_ = "Exact" THEN Lt(Zero, values[i]) ELSE Le(One, values[i])

\* C11 as stated: an estimator returns EmptyInput exactly when the input is empty and Ok
\* exactly when the input is non-empty and every value is > 0 (exact estimator, which
\* never answers ValueTooSmall) or >= 1.0 (log-linear and table-based)
C11_OkIffAllValid ==
    ret.called =>
        /\ (ret.res = Err("EmptyInput")) <=> (Len(args.values) = 0)
        /\ ret.res.ok <=> (Len(args.values) > 0 /\ AllAccepted(args.method, args.values))
        /\ args.method = "Exact" => ret.res # Err("ValueTooSmall")

\* the input is one the pen-and-paper estimators accept: not empty, every value >= 1.0
PenAndPaperInput(values) ==
    Len(values) > 0 /\ \A i \in 1 .. Len(values) : Le(One, values[i])

\* the sum over the input of f(value)
RECURSIVE SumOver(_, _, _)
SumOver(f(_), values, i) == IF i = 0 THEN 0 ELSE f(values[i]) + SumOver(f, values, i - 1)

\* d + v / 10^d with d = floor(log10 v) + 1, in units of 1 / (10 * P)
C16_Encoding(v) == (v.m + 1) * 10 * P + v.x

\* C16: log_linear_approximation decodes once the arithmetic mean of the encodings
\* d + v / 10^d, d = floor(log10 v) + 1: the integer part of the mean is the digit
\* count of the result and its fraction the leading digits; [300, 10000, 900, 70] is
\* encoded 3.3, 5.1, 3.9, 2.7, the mean is 3.75 and the result 750
C16_EncodeMeanDecode ==
    (ret.called /\ args.method = "LogLinear" /\ PenAndPaperInput(args.values)) =>
        LET n == Len(args.values)
            sum == SumOver(C16_Encoding, args.values, n)
            digit_count == sum \div (n * 10 * P)
            fraction == (sum - digit_count * n * 10 * P) \div n
        IN  /\ ret.res.ok
            /\ ret.res.value.k = "num"
            /\ ret.res.value.m = digit_count - 1
            /\ ret.res.value.x = IF fraction < P THEN P ELSE fraction
            /\ args.values = ReadmeLogLinear =>
                  /\ [i \in 1 .. 4 |-> convert_to_log_linear(args.values[i])]
                        = <<33 * P, 51 * P, 39 * P, 27 * P>>
                  /\ sum = 4 * ((375 * P) \div 10)
                  /\ ret.res = Ok(Num(2, (75 * P) \div 10))

C16_Witness ==
    /\ ret.called /\ args.method = "LogLinear" /\ args.values = ReadmeLogLinear
    /\ ret.res = Ok(Num(2, (75 * P) \div 10))

\* the value of a table code: MULTIPLIERS[code % 10] * 10^(code / 10)
C17_Decoded(code) == Num(code \div 10, MULTIPLIERS[(code % 10) + 1])

\* C17: the table-based estimator decodes ceil(s / n) of the encoding sum s of its n
\* values; [3600, 920, 700] (codes 35, 29, 28) and nine 1000s with one 8000 (sum 309)
\* both give code 31 = 1250
C17_CeilingAverage ==
    (ret.called /\ args.method = "TableBased" /\ PenAndPaperInput(args.values)) =>
        LET n == Len(args.values)
            s == SumOver(number_to_log_representation, args.values, n)
            code == CHOOSE c \in 0 .. (s + 1) : c * n >= s /\ (c - 1) * n < s
        IN  /\ ret.res = Ok(C17_Decoded(code))
            /\ args.values = ReadmeTable =>
                  /\ [i \in 1 .. 3 |-> number_to_log_representation(args.values[i])]
                        = <<35, 29, 28>>
                  /\ code = 31
                  /\ ret.res = Ok(Num(3, (125 * P) \div 100))
            /\ args.values = ForcingCeiling =>
                  /\ s = 309 /\ code = 31
                  /\ ret.res = Ok(Num(3, (125 * P) \div 100))

\* the ceiling is not the nearest code: <<1, 1, 80>> has the codes 0, 0, 19, and
\* 19 / 3 = 6.33 is decoded as code 7
C17_Witness ==
    /\ ret.called /\ args.method = "TableBased"
    /\ args.values = <<One, One, Num(1, 8 * P)>>
    /\ ret.res = Ok(C17_Decoded(7))

\* C20: the exact estimator returns the square root of a * b for every pair of positive
\* values a, b: its result r is the value of the grid with r^2 <= a * b < (r + unit)^2;
\* geometric_mean([1, 4]) is 2
C20_TwoValueFormula ==
    (/\ ret.called /\ args.method = "Exact" /\ Len(args.values) = 2
     /\ \A i \in 1 .. 2 : args.values[i].k = "num") =>
        LET a == args.values[1]
            b == args.values[2]
            r == ret.res.value
            e == a.m + b.m - 2 * r.m
        IN  /\ ret.res.ok /\ r.k = "num" /\ r.x \in Mantissas
            /\ e \in {-1, 0, 1}
            /\ r.x * r.x * Pow10(-e) <= a.x * b.x * Pow10(e)
            /\ a.x * b.x * Pow10(e) < (r.x + 1) * (r.x + 1) * Pow10(-e)
            /\ args.values = <<One, Num(0, 4 * P)>> => ret.res = Ok(Num(0, 2 * P))

\* a pair of different magnitudes whose root is not on the grid: sqrt(0.5 * 8000)
C20_Witness ==
    /\ ret.called /\ args.method = "Exact"
    /\ args.values = <<Num(-1, 5 * P), Num(3, 8 * P)>>
    /\ ret.res.ok /\ ret.res.value.m = 1
    /\ ret.res.value.x * ret.res.value.x < 40 * P * P

(***************************************************************************)
(* SpecEval: one call of evaluate_answer.                                  *)
(***************************************************************************)
\* the halves 0, 0.5, 1, ... MaxUser + 1, in units of 1/P
EvalValues == {h * (P \div 2) : h \in 0 .. (2 * MaxUser + 2)}

InitEval ==
    /\ args \in {[user_answer |-> u, exact_geometric_mean |-> x, estimation_result |-> e] :
                    u \in 0 .. MaxUser, x \in EvalValues, e \in EvalValues}
    /\ ret = "NotCalled"
    /\ rng = 0
    /\ SessionIdle

Evaluate ==
    /\ ret = "NotCalled"
    /\ ret' = evaluate_answer(args.user_answer, args.exact_geometric_mean,
                              args.estimation_result)
    /\ UNCHANGED <<args, rng>>
    /\ UNCHANGED sessionVars

NextEval == Evaluate
SpecEval == InitEval /\ [][NextEval]_vars

\* user_answer is floor(estimation_result) or ceil(estimation_result): less than 1 away
IsFloorOrCeil(u, e) == (u - 1) * P < e /\ e < (u + 1) * P
\* user_answer is strictly closer to the exact mean than the estimation result is
StrictlyCloser(u, x, e) == Abs(u * P - x) < Abs(e - x)

\* C2: the verdict is Correct exactly when user_answer is the floor or the ceiling of
\* estimation_result, whatever exact_geometric_mean is (also inside the Excellent range)
C2_CorrectIffFloorCeil ==
    ret # "NotCalled" =>
        /\ (ret = "Correct") <=> IsFloorOrCeil(args.user_answer, args.estimation_result)
        /\ args.user_answer = args.estimation_result \div P => ret = "Correct"

C2_Witness ==
    /\ ret = "Correct" /\ args.user_answer >= 1
    /\ args.user_answer = args.estimation_result \div P
    /\ args.estimation_result % P # 0
    /\ StrictlyCloser(args.user_answer, args.exact_geometric_mean, args.estimation_result)

\* C3: when user_answer is neither floor nor ceiling, the verdict is Excellent exactly
\* when exact - margin < user_answer < exact + margin (strict), Incorrect otherwise
C3_ExcellentIffStrictlyInside ==
    (ret # "NotCalled" /\ ~IsFloorOrCeil(args.user_answer, args.estimation_result)) =>
        IF StrictlyCloser(args.user_answer, args.exact_geometric_mean, args.estimation_result)
        THEN ret = "Excellent"
        ELSE ret = "Incorrect"

\* user_answer exactly at exact - margin
C3_Witness ==
    /\ ret = "Incorrect" /\ args.user_answer >= 1
    /\ args.estimation_result > args.exact_geometric_mean
    /\ args.user_answer * P = 2 * args.exact_geometric_mean - args.estimation_result

(***************************************************************************)
(* SpecHarness: one run of evaluate_estimate, one loop iteration at a time. *)
(***************************************************************************)
HarnessMethods == Methods \cup {"Failing"}
\* the values exp(log_value) the run draws: 0.5, 1, 5 and 9, those of [min, max]
HarnessGrid == {Num(-1, 5 * P), One, Num(0, 5 * P), Num(0, 9 * P)}
HarnessValues(min, max) == {v \in HarnessGrid : Le(min, v) /\ Le(v, max)}
NoResults == [total_tests |-> 0]

InitHarness ==
    /\ args \in [T : HarnessMethods, min : {Num(-1, 5 * P), One}, max : {Num(0, 9 * P)},
                 num_tests : 0 .. MaxTests]
    /\ ret = [i |-> 0, acc |-> NewTotals, both_ok |-> 0, done |-> FALSE,
              results |-> NoResults]
    /\ rng = 0
    /\ SessionIdle

\* one iteration: test_size and test_size values are drawn, then the loop body runs
HarnessTrial ==
    /\ ~ret.done /\ ret.i < args.num_tests
    /\ \E test_size \in 1 .. MaxTestSize :
          \E test_values \in [1 .. test_size -> HarnessValues(args.min, args.max)] :
             /\ ret' = [ret EXCEPT
                          !.i = @ + 1,
                          !.acc = harness_trial(@, args.T, test_values),
                          !.both_ok = IF trial_skipped(args.T, test_values) THEN @ ELSE @ + 1]
             /\ rng' = rng + 1 + test_size
    /\ UNCHANGED <<args, sessionVars>>

HarnessFinish ==
    /\ ~ret.done /\ ret.i = args.num_tests
    /\ ret' = [ret EXCEPT !.done = TRUE, !.results = harness_results(ret.acc)]
    /\ UNCHANGED <<args, rng, sessionVars>>

NextHarness == HarnessTrial \/ HarnessFinish
SpecHarness == InitHarness /\ [][NextHarness]_vars

\* a <= b for two statistics; every comparison with NaN is false
StatLe(a, b) == a.k = "num" /\ b.k = "num" /\ a.n * b.d <= b.n * a.d
StatZero == Ratio(0, 1)
StatAbs(a) == [a EXCEPT !.n = Abs(@)]

\* C12: a run with at least one valid trial has worst_case_error >= the mean absolute
\* relative error, 0 <= worst_case_overestimate <= worst_case_error and
\* |overall_bias| <= worst_case_error
C12_WorstBounds ==
    (ret.done /\ ret.results.total_tests >= 1) =>
        LET r == ret.results IN
        /\ StatLe(r.mean_absolute_relative_error, r.worst_case_error)
        /\ StatLe(StatZero, r.worst_case_overestimate)
        /\ StatLe(r.worst_case_overestimate, r.worst_case_error)
        /\ StatLe(StatAbs(r.overall_bias), r.worst_case_error)

\* C13: a trial whose exact mean or estimator fails is discarded: it leaves every
\* accumulated statistic as it was and is not counted; total_tests is the number of
\* trials in which both succeeded, and never more than num_tests
C13_Discarded ==
    /\ [](/\ ret.acc.valid_tests = ret.both_ok
          /\ ret.both_ok <= ret.i /\ ret.i <= args.num_tests
          /\ ret.done => (ret.results.total_tests = ret.both_ok
                           /\ ret.results.total_tests <= args.num_tests))
    /\ [][(ret'.i = ret.i + 1 /\ ret'.both_ok = ret.both_ok) => ret'.acc = ret.acc]_vars

\* a run with a counted trial followed by a discarded one
C13_Witness ==
    /\ ret.done /\ ret.i = 2 /\ ret.both_ok = 1
    /\ ret.results.total_tests = 1
    /\ ret.results.worst_case_error.n > 0

\* C14: a run without a valid trial (num_tests = 0, or every trial discarded) returns
\* total_tests = 0 and NaN for the four statistics
C14_NoValidTrial ==
    (ret.done /\ ret.both_ok = 0) =>
        ret.results = [mean_absolute_relative_error |-> StatNaN,
                       worst_case_error |-> StatNaN,
                       worst_case_overestimate |-> StatNaN,
                       overall_bias |-> StatNaN,
                       total_tests |-> 0]

\* every trial of a run of MaxTests trials was discarded
C14_Witness ==
    /\ ret.done /\ args.num_tests = MaxTests /\ ret.i = MaxTests
    /\ args.T = "TableBased"
    /\ ret.results.total_tests = 0
    /\ ret.results.worst_case_error = StatNaN

\* C15: with the exact estimator installed every error statistic of a run is zero
C15_ExactIsPerfect ==
    (args.T = "Exact" /\ ret.done /\ ret.results.total_tests >= 1) =>
        /\ ret.results.mean_absolute_relative_error.k = "num"
        /\ ret.results.mean_absolute_relative_error.n = 0
        /\ ret.results.worst_case_error = StatZero
        /\ ret.results.worst_case_overestimate = StatZero
        /\ ret.results.overall_bias.k = "num" /\ ret.results.overall_bias.n = 0

C15_Witness ==
    /\ args.T = "Exact" /\ ret.done
    /\ ret.results.total_tests = MaxTests
    /\ ret.results.worst_case_error = StatZero

(***************************************************************************)
(* Spec: a configuration is built, a session is created with it, started   *)
(* and answered.                                                           *)
(***************************************************************************)
SessionMethods == Methods \cup {"Failing"}
\* NaN, -1.0, 0.0, 1.0, 50.0 and 50.1
SessionLogStdDevs ==
    {NaN, Neg(0, P), Zero, One, FromNat(MaxLogStdDev), Num(1, 5 * P + P \div 10)}
\* raw values of the samples: 0 (exp underflows), 1.5, 7.3, 26.x and 103
SessionRaws ==
    {Zero, Num(0, P + P \div 2), Num(0, 7 * P + 3), Num(1, 2 * P + 63), Num(2, P + 3)}

Init ==
    /\ args = [team_size |-> 0, log_std_dev |-> Zero, min_answer |-> 0, max_answer |-> 0]
    /\ ret = "None"
    /\ rng = 0
    /\ SessionIdle

NewConfig ==
    /\ phase = "NoConfig"
    /\ \E t \in 0 .. MaxTeam, s \in SessionLogStdDevs, lo \in 0 .. MaxAnswer,
          hi \in 0 .. MaxAnswer :
          /\ args' = [team_size |-> t, log_std_dev |-> s, min_answer |-> lo,
                      max_answer |-> hi]
          /\ config' = PracticeModeConfig_new(t, s, lo, hi)
    /\ phase' = "Configured"
    /\ UNCHANGED <<ret, rng, method, guesses, active, timer, result, hist>>

\* PracticeSession::new(rng, timer)
NewSession ==
    /\ phase = "Configured" /\ config.ok
    /\ \E e \in SessionMethods : method' = e
    /\ phase' = "Ready"
    /\ UNCHANGED <<args, ret, rng, config, guesses, active, timer, result, hist>>

\* start with min_answer = 0: ln(0) is -inf, so gen_range is given a range without a
\* finite width.  The rand crate either panics on it (StartPanics) or hands back a value
\* that is not finite, and exp(..) as u64 of that is 0 (gen_range).
gen_range(min_answer, max_answer) ==
    IF min_answer = 0 THEN {0} ELSE min_answer .. (max_answer - 1)

StartPanics ==
    /\ can_start /\ config.ok
    /\ config.min_answer = 0
    /\ phase' = "Panicked"
    /\ hist' = [hist EXCEPT !.starts = @ + 1]
    /\ UNCHANGED <<args, ret, rng, config, method, guesses, active, timer, result>>

Start ==
    /\ can_start /\ config.ok
    /\ \E c \in gen_range(config.min_answer, config.max_answer),
          raws \in [1 .. config.team_size -> SessionRaws] :
          LET r == start(config, method, c, raws)
              now == IF reads_timer(r) THEN 1 ELSE 0
          IN
          /\ rng' = rng + r.draws
          /\ timer' = timer + now
          /\ IF r.ok
             THEN /\ guesses' = r.guesses
                  /\ active' = [exact_geometric_mean |-> r.exact_geometric_mean,
                                estimation_result |-> r.estimation_result,
                                start_instant |-> timer]
                  /\ phase' = "Active"
                  /\ result' = result
                  /\ hist' = [hist EXCEPT !.starts = @ + 1, !.started = TRUE,
                                          !.timer_reads = @ + now]
             ELSE /\ result' = [kind |-> "Err", err |-> r.err]
                  /\ phase' = "Failed"
                  /\ hist' = [hist EXCEPT !.starts = @ + 1, !.cause = r.cause,
                                          !.timer_reads = @ + now]
                  /\ UNCHANGED <<guesses, active>>
    /\ UNCHANGED <<args, ret, config, method>>

SubmitAnswer ==
    /\ can_submit
    /\ \E user_answer \in (0 .. MaxUser) \cup {floor_as_u64(Fx(active.estimation_result))} :
          result' = submit_answer(active, user_answer, timer - active.start_instant)
    /\ phase' = "Done"
    /\ hist' = [hist EXCEPT !.submits = @ + 1, !.results = @ + 1]
    /\ UNCHANGED <<args, ret, rng, config, method, guesses, active, timer>>

Next == NewConfig \/ NewSession \/ StartPanics \/ Start \/ SubmitAnswer
Spec == Init /\ [][Next]_vars

\* C1: a session is started at most once and answered at most once, an answer is
\* only given to the Active session of a start that succeeded, and a session yields
\* at most one PracticeResult
C1_OneShot ==
    /\ hist.starts <= 1 /\ hist.submits <= 1 /\ hist.results <= 1
    /\ hist.submits >= 1 => hist.started
    /\ phase = "Active" => (hist.started /\ hist.submits = 0)
    /\ result.kind = "PracticeResult" <=> phase = "Done"
    /\ phase = "Done" => (hist.starts = 1 /\ hist.submits = 1 /\ hist.results = 1)
    /\ phase \in {"Failed", "Panicked"} => (~hist.started /\ hist.submits = 0)

C1_Witness ==
    /\ phase = "Done" /\ result.kind = "PracticeResult"
    /\ hist.starts = 1 /\ hist.submits = 1

\* C6 as stated: PracticeModeConfig::new succeeds only for team_size >= 1,
\* min_answer < max_answer and both bounds positive
C6_OnlyPositiveAccepted ==
    (phase # "NoConfig" /\ config.ok) =>
        /\ args.team_size >= 1
        /\ args.min_answer < args.max_answer
        /\ args.min_answer >= 1 /\ args.max_answer >= 1

\* C7: team_size = 0 gives ZeroTeamSize whatever the other arguments are; otherwise
\* min_answer >= max_answer gives InvalidAnswerRange; otherwise the configuration holds
\* the four arguments
C7_ErrorPrecedence ==
    phase # "NoConfig" =>
        config = IF args.team_size = 0 THEN [ok |-> FALSE, err |-> "ZeroTeamSize"]
                 ELSE IF ~(args.min_answer < args.max_answer)
                 THEN [ok |-> FALSE, err |-> "InvalidAnswerRange"]
                 ELSE [ok |-> TRUE] @@ args

C7_Witness ==
    /\ phase # "NoConfig"
    /\ args.team_size = 0 /\ args.min_answer = args.max_answer
    /\ config = [ok |-> FALSE, err |-> "ZeroTeamSize"]

\* the distribution of a started session cannot be built, or its estimator fails
C8_MustFail ==
    \/ config.min_answer = 0
    \/ config.log_std_dev.k \in {"nan", "inf", "ninf", "neg"}
    \/ Lt(FromNat(MaxLogStdDev), config.log_std_dev)
    \/ method = "Failing"

\* C8: when the distribution, the exact mean or the estimator fails inside start, start
\* returns Err(InvalidAnswerRange), whatever the failure was, and neither guesses nor an
\* Active session
C8_StartFailure ==
    /\ (hist.starts >= 1 /\ phase # "Panicked" /\ C8_MustFail) => hist.cause # "None"
    /\ hist.cause # "None" =>
          /\ phase = "Failed"
          /\ result = [kind |-> "Err", err |-> "InvalidAnswerRange"]
          /\ guesses = <<>> /\ active = NoActive
          /\ ~hist.started /\ hist.timer_reads = 0

C8_Witness ==
    /\ phase = "Failed" /\ hist.cause = "EstimatorError"
    /\ result = [kind |-> "Err", err |-> "InvalidAnswerRange"]
    /\ guesses = <<>>

C21_TimerCausality ==
    /\ [](/\ hist.timer_reads = (IF hist.started THEN 1 ELSE 0)
          /\ timer = hist.timer_reads
          /\ phase \in {"Failed", "Panicked"} => timer = 0)
    /\ [][hist'.timer_reads # hist.timer_reads =>
            /\ phase' = "Active" /\ hist.timer_reads = 0
            /\ active'.start_instant = timer /\ timer' = timer + 1
            /\ Len(guesses') = config.team_size
            /\ LET guesses_f64 == [i \in 1 .. Len(guesses') |-> U64ToF64(guesses'[i])]
               IN  /\ Ok(active'.exact_geometric_mean) = geometric_mean(guesses_f64)
                   /\ Ok(active'.estimation_result)
                         = estimate_geometric_mean(method, guesses_f64)]_vars
    /\ [][hist'.submits # hist.submits =>
            /\ hist.timer_reads = 1 /\ timer' = timer
            /\ result'.duration = timer - active.start_instant
            /\ result'.duration > 0]_vars

\* a started session was answered: one timer read, then one elapsed time
C21_Witness ==
    /\ phase = "Done" /\ hist.timer_reads = 1 /\ hist.submits = 1
    /\ result.duration = 1 /\ active.start_instant = 0

(***************************************************************************)
(* SpecPair: a pen-and-paper estimator is called on two inputs of the same *)
(* length, the first at most the second at every position.                 *)
(***************************************************************************)
PenAndPaperMethods == {"LogLinear", "TableBased"}
\* 0.5, 1, the last value below 1.25, the last value below 10, 10, 80 and 3000
PairValues ==
    {Num(-1, 5 * P), One, Num(0, (125 * P) \div 100 - 1), Num(0, 10 * P - 1),
     Num(1, P), Num(1, 8 * P), Num(3, 3 * P)}
PointwiseLe(a, b) == Len(a) = Len(b) /\ \A i \in 1 .. Len(a) : Le(a[i], b[i])

InitPair ==
    /\ args \in {[method |-> e, a |-> a, b |-> b] :
                    e \in PenAndPaperMethods,
                    a \in SeqsUpTo(PairValues, MaxPairLen),
                    b \in SeqsUpTo(PairValues, MaxPairLen)}
    /\ PointwiseLe(args.a, args.b)
    /\ ret = [called |-> FALSE, a |-> Err("NotCalled"), b |-> Err("NotCalled")]
    /\ rng = 0
    /\ SessionIdle

EstimatePair ==
    /\ ~ret.called
    /\ ret' = [called |-> TRUE,
               a |-> estimate_geometric_mean(args.method, args.a),
               b |-> estimate_geometric_mean(args.method, args.b)]
    /\ UNCHANGED <<args, rng>>
    /\ UNCHANGED sessionVars

NextPair == EstimatePair
SpecPair == InitPair /\ [][NextPair]_vars

\* C22: for two valid inputs a and b of the same length with a[i] <= b[i] at every
\* position, the log-linear and the table-based estimate of a is at most that of b
C22_Monotone ==
    (ret.called /\ PenAndPaperInput(args.a) /\ PenAndPaperInput(args.b)) =>
        /\ ret.a.ok /\ ret.b.ok
        /\ Le(ret.a.value, ret.b.value)

\* <<9.99, 9.99>> against <<9.99, 10>>: the mean of the second has a fraction below 0.1
C22_Witness ==
    /\ ret.called /\ args.method = "LogLinear"
    /\ args.a = <<Num(0, 10 * P - 1), Num(0, 10 * P - 1)>>
    /\ args.b = <<Num(0, 10 * P - 1), Num(1, P)>>
    /\ ret.a = Ok(Num(0, 10 * P - 1)) /\ ret.b = Ok(Num(1, P))

(***************************************************************************)
(* SpecTable: number_to_log_representation on one value, and the           *)
(* table-based estimator on one value, on its own result and on its result *)
(* plus and minus 1.0.                                                     *)
(***************************************************************************)
\* value + 1.0 (sign = 1) and value - 1.0 (sign = -1) in f64: the nearest number of the
\* grid; a 1.0 below a tenth of the unit of the grid is absorbed
AddOne(v, sign) ==
    IF v.m <= MantDigits
    THEN LET n == v.x + sign * Pow10(MantDigits - v.m)
         IN  IF n >= 10 * P THEN Num(v.m + 1, RoundDiv(n, 10)) ELSE Normalised(v.m, n)
    ELSE IF sign = -1 /\ v.x = P /\ v.m = MantDigits + 1
    THEN Num(v.m - 1, 10 * P - 1)
    ELSE v

\* the values of the README examples: 2000, 50, 1250000, 350, 11 and 9001 (a value of
\* more digits than the grid holds is cut to the grid, which keeps every comparison of
\* its leading digits with the table)
TableExamples ==
    {FromNat(2000), FromNat(50), FromNat(1250000), FromNat(350), FromNat(11), FromNat(9001)}
TableValues ==
    TableExamples \cup {Num(-1, 5 * P)}
    \cup {Num(m, x) : m \in 0 .. (MaxLowMag + 1), x \in Mantissas}

InitTable ==
    /\ args \in [op : {"encode", "single"}, value : TableValues]
    /\ ret = [called |-> FALSE]
    /\ rng = 0
    /\ SessionIdle

EncodeValue ==
    /\ ~ret.called /\ args.op = "encode"
    /\ Le(One, args.value)
    /\ ret' = [called |-> TRUE, code |-> number_to_log_representation(args.value)]
    /\ UNCHANGED <<args, rng>>
    /\ UNCHANGED sessionVars

\* estimate_geometric_mean(&[n]), then the estimate of the result, of the result + 1.0
\* and of the result - 1.0
EstimateSingle ==
    /\ ~ret.called /\ args.op = "single"
    /\ LET boundary_result == table_based_approximation(<<args.value>>)
       IN  IF ~boundary_result.ok
           THEN ret' = [called |-> TRUE, boundary_result |-> boundary_result]
           ELSE ret' = [called |-> TRUE, boundary_result |-> boundary_result,
                        again |-> table_based_approximation(<<boundary_result.value>>),
                        above_boundary_result |->
                            table_based_approximation(<<AddOne(boundary_result.value, 1)>>),
                        below_boundary_result |->
                            table_based_approximation(<<AddOne(boundary_result.value, -1)>>)]
    /\ UNCHANGED <<args, rng>>
    /\ UNCHANGED sessionVars

NextTable == EncodeValue \/ EstimateSingle
SpecTable == InitTable /\ [][NextTable]_vars

\* the table 1.0, 1.25, 1.6, 2.0, 2.5, 3.0, 4.0, 5.0, 6.0, 8.0 in hundredths
C27_Table == <<100, 125, 160, 200, 250, 300, 400, 500, 600, 800>>

C28_OnTable(t) == t.k = "num" /\ \E j \in 1 .. 10 : C27_Table[j] * P = 100 * t.x

\* C28 as stated: for every v >= 1 the estimate of <<v>> is the largest number of the
\* table that is <= v, the estimate of that is the same number, and for v >= 8 the
\* estimate of the result + 1 is the result and that of the result - 1 is below it
C28_RoundsDown ==
    (ret.called /\ args.op = "single" /\ Le(One, args.value)) =>
        LET v == args.value
            e == ret.boundary_result.value
        IN  /\ ret.boundary_result.ok
            /\ C28_OnTable(e) /\ Le(e, v)
            /\ \A j \in 1 .. 10 :
                  LET t == Num(v.m, (C27_Table[j] * P) \div 100)
                  IN  (C28_OnTable(t) /\ Le(t, v)) => Le(t, e)
            /\ ret.again = ret.boundary_result
            /\ Le(Num(0, 8 * P), v) =>
                  /\ ret.above_boundary_result = ret.boundary_result
                  /\ ret.below_boundary_result.ok
                  /\ Lt(ret.below_boundary_result.value, e)

(***************************************************************************)
(* SpecDecode: one call of convert_from_log_linear on a mean, or of        *)
(* log_linear_approximation on the inputs of the tests of the decoding.    *)
(***************************************************************************)
\* the means d.ffff, 1 <= d <= MaxLowMag + 1, in units of 1 / (10 * P)
LogValues == (10 * P) .. ((MaxLowMag + 2) * 10 * P - 1)

\* the inputs of test_log_linear_approximation_edge_case_example (mean 3.05) and one
\* whose encodings 3.5 and 4.5 have the mean 4.0
EdgeCaseExample == <<FromNat(80), FromNat(80), FromNat(80), FromNat(800)>>
WholeMeanExample == <<FromNat(500), FromNat(5000)>>
DecodeExamples == {EdgeCaseExample, WholeMeanExample, ReadmeLogLinear}

InitDecode ==
    /\ args \in {[op |-> "decode", log_value |-> l] : l \in LogValues}
                \cup {[op |-> "approximate", values |-> vs] : vs \in DecodeExamples}
    /\ ret = [called |-> FALSE]
    /\ rng = 0
    /\ SessionIdle

Decode ==
    /\ ~ret.called /\ args.op = "decode"
    /\ ret' = [called |-> TRUE, value |-> convert_from_log_linear(args.log_value)]
    /\ UNCHANGED <<args, rng>>
    /\ UNCHANGED sessionVars

Approximate ==
    /\ ~ret.called /\ args.op = "approximate"
    /\ ret' = [called |-> TRUE, res |-> log_linear_approximation(args.values)]
    /\ UNCHANGED <<args, rng>>
    /\ UNCHANGED sessionVars

NextDecode == Decode \/ Approximate
SpecDecode == InitDecode /\ [][NextDecode]_vars

\* C29: a mean with integer part d and a fraction below 0.1 is decoded as 0.1 * 10^d
\* = 10^(d - 1), any other mean as fraction * 10^d; [80, 80, 80, 800] (mean 3.05)
\* gives 100 and a mean of exactly 4.0 gives 1000
C29_ClampedDecoding ==
    /\ (ret.called /\ args.op = "decode") =>
          LET d == args.log_value \div (10 * P)
              fraction == args.log_value % (10 * P)
          IN  /\ fraction < P => ret.value = Num(d - 1, P)
              /\ fraction >= P => ret.value = Num(d - 1, fraction)
              /\ args.log_value = 4 * 10 * P => ret.value = FromNat(1000)
    /\ (ret.called /\ args.op = "approximate") =>
          /\ args.values = EdgeCaseExample =>
                /\ SumOver(C16_Encoding, args.values, 4) = 4 * ((305 * P) \div 10)
                /\ ret.res = Ok(FromNat(100))
          /\ args.values = WholeMeanExample =>
                /\ SumOver(C16_Encoding, args.values, 2) = 2 * (4 * 10 * P)
                /\ ret.res = Ok(FromNat(1000))

C29_Witness ==
    /\ ret.called /\ args.op = "approximate"
    /\ args.values = EdgeCaseExample
    /\ ret.res = Ok(FromNat(100))

\* C30: with a configuration that PracticeModeConfig::new accepted, min_answer >= 1
\* and 0 <= log_std_dev <= 50, a start with the exact, log-linear or table-based
\* estimator returns no error: every true answer it can draw is >= 1, every guess
\* is >= 1, and the session is Active (or answered)
C30_StartNeverFails ==
    (/\ hist.starts >= 1 /\ config.ok /\ method \in Methods
     /\ config.min_answer >= 1
     /\ Le(Zero, config.log_std_dev) /\ Le(config.log_std_dev, FromNat(MaxLogStdDev))) =>
        /\ phase \in {"Active", "Done"}
        /\ hist.started /\ hist.cause = "None"
        /\ result.kind # "Err"
        /\ \A c \in gen_range(config.min_answer, config.max_answer) : c >= 1
        /\ Len(guesses) = config.team_size
        /\ \A i \in 1 .. Len(guesses) : Le(One, U64ToF64(guesses[i]))

C30_Witness ==
    /\ phase = "Active" /\ method = "TableBased"
    /\ config.ok /\ config.min_answer = 1
    /\ config.log_std_dev = FromNat(MaxLogStdDev)
    /\ config.team_size = MaxTeam
    /\ guesses[1] = One

====
